---- MODULE Spec2Model ----
(***************************************************************************)
(* Model of the sweep-line trapezoidation of cairus (src/bo_trap.rs):      *)
(* the event ordering (EventType::cmp, Event::cmp), the construction of    *)
(* the event list (event_list_from_edges), the ordering predicate of the   *)
(* scan line list (find_line_place) and the sweep driver (scan); and of    *)
(* the subdivision of a Bezier curve (src/decasteljau.rs: create_spline),  *)
(* of the pixels and the over operator (src/operators.rs) and of the       *)
(* image surface (src/surfaces.rs).                                        *)
(*                                                                         *)
(* Coordinates are f32 in the source.  The inputs are small integers and   *)
(* the edges of EdgePool have slopes that are powers of two, so every      *)
(* intermediate value is exactly representable; the values computed from   *)
(* them are modelled as IEEE-754 values: finite rationals with a signed    *)
(* zero, the two infinities and NaN.                                       *)
(***************************************************************************)
EXTENDS Integers, Sequences, FiniteSets, TLC

(***************************************************************************)
(* Bounds of the model.                                                    *)
(***************************************************************************)
\* longest edge list handed to scan (the square scenario is added as is)
MaxEdges == 3
\* largest coordinate of the points of the events handed to Event::cmp
MaxCmpCoord == 1
\* largest x of the knots handed to create_spline
MaxKnot == 1
\* the finite channels handed to Rgba::correct are i/2, |i| <= MaxHalves
MaxHalves == 3
\* largest width and height of a surface that holds pixels
MaxDim == 2

\* how many times next is called on after it has returned None
MaxNones == 2

(***************************************************************************)
(* f32 values.  A finite value is n/d with d > 0; neg is the sign bit of a *)
(* zero (n = 0).                                                           *)
(***************************************************************************)
NaN == [k |-> "nan", n |-> 0, d |-> 1, neg |-> FALSE]
PosInf == [k |-> "inf", n |-> 1, d |-> 1, neg |-> FALSE]
NegInf == [k |-> "inf", n |-> -1, d |-> 1, neg |-> TRUE]

Abs(i) == IF i < 0 THEN -i ELSE i

RECURSIVE Gcd(_, _)
Gcd(a, b) == IF b = 0 THEN a ELSE Gcd(b, a % b)

\* the one element of a singleton.  The operators below bind their operands
\* through singletons, The({e(x) : x \in {operand}}), so that an operand
\* that is itself a computed value is evaluated once.
The(S) == CHOOSE r \in S : TRUE

\* the finite value n/d (d # 0), in lowest terms; a zero gets the sign bit neg
Fin(n0, d0, neg) ==
    The({IF n = 0 THEN [k |-> "fin", n |-> 0, d |-> 1, neg |-> neg]
         ELSE [k |-> "fin",
               n |-> ((IF d < 0 THEN -n ELSE n) \div Gcd(Abs(n), Abs(d))),
               d |-> (Abs(d) \div Gcd(Abs(n), Abs(d))),
               neg |-> ((d < 0) # (n < 0))] : n \in {n0}, d \in {d0}})

\* an integer coordinate as an f32
F(i) == Fin(i, 1, FALSE)

IsNaN(a) == a.k = "nan"
IsInf(a) == a.k = "inf"
IsZero(a) == a.k = "fin" /\ a.n = 0
\* TRUE when the sign bit is set
SignBit(a) == IF a.k = "fin" /\ a.n = 0 THEN a.neg ELSE a.n < 0
Signed(neg, pos, negv) == IF neg THEN negv ELSE pos

FNeg(a0) ==
    The({IF IsNaN(a) THEN NaN
         ELSE IF IsInf(a) THEN Signed(SignBit(a), NegInf, PosInf)
         ELSE Fin(-a.n, a.d, ~SignBit(a)) : a \in {a0}})

\* a + b (IEEE: inf + -inf = NaN, an exact zero sum is +0 unless both are -0)
FAdd(a0, b0) ==
    The({IF IsNaN(a) \/ IsNaN(b) THEN NaN
         ELSE IF IsInf(a) /\ IsInf(b)
              THEN IF SignBit(a) = SignBit(b) THEN a ELSE NaN
         ELSE IF IsInf(a) THEN a
         ELSE IF IsInf(b) THEN b
         ELSE Fin(a.n * b.d + b.n * a.d, a.d * b.d, SignBit(a) /\ SignBit(b))
            : a \in {a0}, b \in {b0}})

FSub(a, b) == FAdd(a, FNeg(b))

\* a / b (IEEE: 0/0 and inf/inf are NaN, x/0 is an infinity, x/inf a zero)
FDiv(a0, b0) ==
    The({IF IsNaN(a) \/ IsNaN(b) THEN NaN
         ELSE IF IsInf(a)
              THEN IF IsInf(b) THEN NaN
                   ELSE Signed(SignBit(a) # SignBit(b), PosInf, NegInf)
         ELSE IF IsInf(b) THEN Fin(0, 1, SignBit(a) # SignBit(b))
         ELSE IF IsZero(b)
              THEN IF IsZero(a) THEN NaN
                   ELSE Signed(SignBit(a) # SignBit(b), PosInf, NegInf)
         ELSE Fin(a.n * b.d, a.d * b.n, SignBit(a) # SignBit(b))
            : a \in {a0}, b \in {b0}})

\* a < b, a > b, a == b on f32: every comparison with NaN is false
FLt(a0, b0) ==
    The({IF IsNaN(a) \/ IsNaN(b) THEN FALSE
         ELSE IF IsInf(a) THEN SignBit(a) /\ ~(IsInf(b) /\ SignBit(b))
         ELSE IF IsInf(b) THEN ~SignBit(b)
         ELSE a.n * b.d < b.n * a.d : a \in {a0}, b \in {b0}})

FGt(a, b) == FLt(b, a)

FEq(a0, b0) ==
    The({IF IsNaN(a) \/ IsNaN(b) THEN FALSE
         ELSE IF IsInf(a) \/ IsInf(b)
              THEN IsInf(a) /\ IsInf(b) /\ SignBit(a) = SignBit(b)
         ELSE a.n * b.d = b.n * a.d : a \in {a0}, b \in {b0}})

\* a * b (IEEE: 0 * inf is NaN, the sign is the exclusive or of the signs)
FMul(a0, b0) ==
    The({IF IsNaN(a) \/ IsNaN(b) THEN NaN
         ELSE IF IsInf(a) \/ IsInf(b)
              THEN IF IsZero(a) \/ IsZero(b) THEN NaN
                   ELSE Signed(SignBit(a) # SignBit(b), PosInf, NegInf)
         ELSE Fin(a.n * b.n, a.d * b.d, SignBit(a) # SignBit(b))
            : a \in {a0}, b \in {b0}})

\* f32::min: the smaller operand, the other one when self is NaN
FMinOf(self0, other0) ==
    The({IF IsNaN(self) \/ FGt(self, other) THEN other ELSE self
            : self \in {self0}, other \in {other0}})

\* f32::max: the larger operand, the other one when self is NaN
FMaxOf(self0, other0) ==
    The({IF IsNaN(self) \/ FLt(self, other) THEN other ELSE self
            : self \in {self0}, other \in {other0}})

\* f32::partial_cmp(..).unwrap_or(Ordering::Equal)
PartialCmpOrEqual(a, b) ==
    IF FLt(a, b) THEN "Less" ELSE IF FGt(a, b) THEN "Greater" ELSE "Equal"

(***************************************************************************)
(* Geometry primitives (common_geometry): Point, LineSegment, Edge.        *)
(***************************************************************************)
Pt(x, y) == [x |-> x, y |-> y]

LineSegment(x1, y1, x2, y2) == [point1 |-> Pt(x1, y1), point2 |-> Pt(x2, y2)]

Min(a, b) == IF a < b THEN a ELSE b
Max(a, b) == IF a < b THEN b ELSE a

\* an edge over a line: top is the smaller y, bottom the larger
create_edge(x1, y1, x2, y2, dir) ==
    [line |-> LineSegment(x1, y1, x2, y2),
     top |-> Min(y1, y2), bottom |-> Max(y1, y2), direction |-> dir]

\* LineSegment::slope: rise over run, in f32
slope(line) ==
    FDiv(FSub(F(line.point2.y), F(line.point1.y)),
         FSub(F(line.point2.x), F(line.point1.x)))

\* LineSegment::min_y_point: the endpoint with the smaller y
min_y_point(line) ==
    IF line.point1.y < line.point2.y THEN line.point1 ELSE line.point2

\* LineSegment::min_x_point: the endpoint with the smaller x
min_x_point(line) ==
    IF line.point1.x < line.point2.x THEN line.point1 ELSE line.point2

\* LineSegment ==: the same two endpoints (no two edges of the inputs are
\* the same segment drawn in opposite directions)
LineEq(l1, l2) == l1.point1 = l2.point1 /\ l1.point2 = l2.point2

(***************************************************************************)
(* Events and their order.                                                 *)
(***************************************************************************)
EventTypes == {"Start", "End", "Intersection"}

\* Event::new: edge_right is None
NewEvent(edge_left, point, event_type) ==
    [edge_left |-> edge_left, edge_right |-> "None",
     point |-> point, event_type |-> event_type]

\* EventType::cmp with Start and End exchanged
EventTypeCmpSwapped(self, other) ==
    CASE self = "Start" ->
           (CASE other = "Start" -> "Equal"
              [] other = "End" -> "Less"
              [] other = "Intersection" -> "Less")
      [] self = "End" ->
           (CASE other = "Start" -> "Greater"
              [] other = "End" -> "Equal"
              [] other = "Intersection" -> "Greater")
      [] self = "Intersection" ->
           (CASE other = "Start" -> "Greater"
              [] other = "End" -> "Less"
              [] other = "Intersection" -> "Equal")

\* impl Ord for EventType
EventTypeCmp(self, other) ==
    CASE self = "Start" ->
           (CASE other = "Start" -> "Equal"
              [] other = "End" -> "Greater"
              [] other = "Intersection" -> "Greater")
      [] self = "End" ->
           (CASE other = "Start" -> "Less"
              [] other = "End" -> "Equal"
              [] other = "Intersection" -> "Less")
      [] self = "Intersection" ->
           (CASE other = "Start" -> "Less"
              [] other = "End" -> "Greater"
              [] other = "Intersection" -> "Equal")

\* Event::cmp that returns the comparison of the kinds as it is
EventCmpTieEqual(self, other) ==
    LET y_compare == PartialCmpOrEqual(F(self.point.y), F(other.point.y))
        x_compare == PartialCmpOrEqual(F(self.point.x), F(other.point.x))
    IN  IF y_compare # "Equal" THEN y_compare
        ELSE IF x_compare # "Equal" THEN x_compare
        ELSE EventTypeCmp(self.event_type, other.event_type)

\* Event::cmp that looks at x before y
EventCmpXFirst(self, other) ==
    LET y_compare == PartialCmpOrEqual(F(self.point.y), F(other.point.y))
        x_compare == PartialCmpOrEqual(F(self.point.x), F(other.point.x))
        type_compare == EventTypeCmp(self.event_type, other.event_type)
    IN  IF x_compare # "Equal" THEN x_compare
        ELSE IF y_compare # "Equal" THEN y_compare
        ELSE IF type_compare = "Equal" THEN "Greater"
        ELSE type_compare

\* impl Ord for Event
EventCmp(self, other) ==
    LET y_compare == PartialCmpOrEqual(F(self.point.y), F(other.point.y))
        x_compare == PartialCmpOrEqual(F(self.point.x), F(other.point.x))
        type_compare == EventTypeCmp(self.event_type, other.event_type)
    IN  IF y_compare # "Equal" THEN y_compare
        ELSE IF x_compare # "Equal" THEN x_compare
        ELSE IF type_compare = "Equal" THEN "Greater"
        ELSE type_compare

\* impl PartialEq for Event
EventEq(self, other) == TRUE

\* PartialOrd::lt as slice::sort uses it: partial_cmp is Some(cmp)
EventLt(a, b) == EventCmp(a, b) = "Less"

\* slice::sort is a stable sort that asks only whether a < b; on slices of up
\* to 20 elements it is an insertion sort.  One insertion: e moves left past
\* sorted[j] while it is less; the index it comes to rest after
RECURSIVE InsertPos(_, _, _)
InsertPos(sorted, e, j) ==
    IF j > 0 /\ EventLt(e, sorted[j]) THEN InsertPos(sorted, e, j - 1) ELSE j

\* e inserted into the sorted prefix
InsertTail(sorted, e) ==
    SubSeq(sorted, 1, InsertPos(sorted, e, Len(sorted))) \o <<e>>
        \o SubSeq(sorted, InsertPos(sorted, e, Len(sorted)) + 1, Len(sorted))

\* the first n elements of s, sorted (the sorted prefix and the element are
\* bound by a set so that each is evaluated once)
RECURSIVE SortPrefix(_, _)
SortPrefix(s, n) ==
    IF n = 0 THEN <<>>
    ELSE CHOOSE r \in {InsertTail(sorted, e) :
                          sorted \in {SortPrefix(s, n - 1)}, e \in {s[n]}} : TRUE

\* event_list_from_edges without its events.sort()
SortEventsMissing(s) == s

\* events.sort()
SortEvents(s) == SortPrefix(s, Len(s))

\* the events pushed for one edge by the loop body of event_list_from_edges
EdgeEvents(edge) ==
    LET p1 == edge.line.point1
        p2 == edge.line.point2
        horizontal ==
            IF edge.top = edge.bottom
            THEN IF p1.x < p2.x
                 THEN <<NewEvent(edge, Pt(p1.x, p1.y), "Start"),
                        NewEvent(edge, Pt(p2.x, p2.y), "End")>>
                 ELSE <<NewEvent(edge, Pt(p2.x, p2.y), "Start"),
                        NewEvent(edge, Pt(p1.x, p1.y), "End")>>
            ELSE <<>>
        endpoints ==
            IF edge.top = p1.y
            THEN <<NewEvent(edge, Pt(p1.x, p1.y), "Start"),
                   NewEvent(edge, Pt(p2.x, p2.y), "End")>>
            ELSE <<NewEvent(edge, Pt(p2.x, p2.y), "Start"),
                   NewEvent(edge, Pt(p1.x, p1.y), "End")>>
    IN  horizontal \o endpoints

RECURSIVE PushAll(_)
PushAll(edges) ==
    IF edges = <<>> THEN <<>>
    ELSE EdgeEvents(Head(edges)) \o PushAll(Tail(edges))

\* fn event_list_from_edges
event_list_from_edges(edges) == SortEvents(PushAll(edges))

(***************************************************************************)
(* The scan line list: a linked_list::LinkedList<ScanLineEdge> and the one *)
(* Cursor scan keeps on it.  The cursor rests between two elements; cursor *)
(* is the number of elements before it, and at cursor = Len(list) it rests *)
(* before the ghost element that separates the tail from the head.         *)
(***************************************************************************)
\* ScanLineEdge::new
ScanLineEdge(top, left, line) == [top |-> top, left |-> left, line |-> line]

\* Cursor::peek_next().is_none()
PeekNextIsNone(list, c) == c >= Len(list)

\* Cursor::next: over the ghost the cursor is back at the head
CursorNext(list, c) == IF c >= Len(list) THEN 0 ELSE c + 1

\* Cursor::prev: before the head the cursor jumps over the ghost to the tail
CursorPrev(list, c) == IF c = 0 THEN Len(list) ELSE c - 1

\* Cursor::insert: the element becomes the cursor's next element
CursorInsert(list, c, elem) ==
    SubSeq(list, 1, c) \o <<elem>> \o SubSeq(list, c + 1, Len(list))

\* Cursor::remove that takes the tail of the list for the ghost
CursorRemoveNotTail(list, c) ==
    IF c + 1 >= Len(list) THEN list
    ELSE SubSeq(list, 1, c) \o SubSeq(list, c + 2, Len(list))

\* Cursor::remove: removes the cursor's next element, nothing at the ghost
CursorRemove(list, c) ==
    IF c >= Len(list) THEN list
    ELSE SubSeq(list, 1, c) \o SubSeq(list, c + 2, Len(list))

\* ScanLineEdge::current_x_for_y
current_x_for_y(self, y) ==
    LET min == min_y_point(self.line)
    IN  FAdd(FDiv(FSub(F(y), F(min.y)), slope(self.line)), F(min.x))

\* find_line_place that looks at the slopes alone, never at point.x
find_line_place_by_slope(point, line, next_sl_edge) ==
    IF LineEq(line, next_sl_edge.line) THEN "Equal"
    ELSE IF FGt(slope(line), slope(next_sl_edge.line)) THEN "Greater"
    ELSE "Less"

\* fn find_line_place
find_line_place(point, line, next_sl_edge) ==
    LET next_line == next_sl_edge.line
        next_x == current_x_for_y(next_sl_edge, point.y)
    IN  IF LineEq(line, next_line) THEN "Equal"
        ELSE IF FEq(F(point.x), next_x)
             THEN IF FGt(slope(line), slope(next_line)) THEN "Greater" ELSE "Less"
        ELSE IF FGt(F(point.x), next_x) THEN "Greater"
        ELSE "Less"

\* the walk of the Start case: from cursor c to the first element that
\* find_line_place does not report Greater for, or to the ghost
RECURSIVE InsertWalk(_, _, _)
InsertWalk(list, c, ev) ==
    IF find_line_place(ev.point, ev.edge_left.line, list[c + 1]) = "Greater"
    THEN IF PeekNextIsNone(list, CursorNext(list, c))
         THEN CursorNext(list, c)
         ELSE InsertWalk(list, CursorNext(list, c), ev)
    ELSE c

\* the Start case of scan that appends the new ScanLineEdge to the list
StartInsertAtTail(list, ev) == Len(list)

\* the Start case of scan: where the new ScanLineEdge is inserted
StartInsertAt(list, ev) ==
    IF PeekNextIsNone(list, 0) THEN 0 ELSE InsertWalk(list, 0, ev)

\* the search loop of the End case as a function: from cursor c, the cursor
\* at which the loop is left (on Equal, or on Less with "Failed to remove"),
\* -1 when peek_next().unwrap() panics, -2 when the loop is never left.  The
\* cursor moves only backwards, so once Len(list) + 1 passes have reported
\* Greater every record has and the passes repeat.
RECURSIVE EndSearch(_, _, _, _)
EndSearch(list, c, ev, passesLeft) ==
    LET sc == IF PeekNextIsNone(list, c) THEN CursorPrev(list, c) ELSE c
    IN  IF PeekNextIsNone(list, sc) THEN -1
        ELSE IF find_line_place(ev.point, ev.edge_left.line, list[sc + 1]) = "Greater"
             THEN IF passesLeft = 0 THEN -2
                  ELSE EndSearch(list, CursorPrev(list, sc), ev, passesLeft - 1)
        ELSE sc

\* one pass of scan's loop as a function of the scan line list: the list
\* after event ev, or ok = FALSE when scan does not get past ev
ListAfterEvent(list, ev) ==
    IF ev.event_type = "Start"
    THEN [ok |-> TRUE,
          list |-> CursorInsert(list, StartInsertAt(list, ev),
                       ScanLineEdge(ev.point.y, min_x_point(ev.edge_left.line).x,
                                    ev.edge_left.line))]
    ELSE The({IF c < 0 THEN [ok |-> FALSE, list |-> <<>>]
              ELSE [ok |-> TRUE, list |-> CursorRemove(list, c)] :
                  c \in {EndSearch(list, 0, ev, Len(list))}})

\* the scan line list after the first n events of evs, from the empty list
RECURSIVE ListAfterEvents(_, _)
ListAfterEvents(evs, n) ==
    IF n = 0 THEN [ok |-> TRUE, list |-> <<>>]
    ELSE The({IF before.ok THEN ListAfterEvent(before.list, evs[n]) ELSE before :
                 before \in {ListAfterEvents(evs, n - 1)}})

\* the loop that prints the scan line list: it leaves the cursor at the ghost
RECURSIVE PrintWalk(_, _)
PrintWalk(list, c) ==
    IF PeekNextIsNone(list, c) THEN c ELSE PrintWalk(list, CursorNext(list, c))

(***************************************************************************)
(* De Casteljau subdivision (src/decasteljau.rs).                          *)
(***************************************************************************)
\* Point::origin
Origin == [x |-> F(0), y |-> F(0)]

\* Point::create
PointCreate(x, y) == [x |-> x, y |-> y]

\* SplineKnots::create
SplineKnotsCreate(a, b, c, d) ==
    [a |-> PointCreate(a.x, a.y), b |-> PointCreate(b.x, b.y),
     c |-> PointCreate(c.x, c.y), d |-> PointCreate(d.x, d.y)]

\* fn lerp_half: a + (b - a)/2. on each coordinate
lerp_half(a, b) ==
    [x |-> FAdd(a.x, FDiv(FSub(b.x, a.x), F(2))),
     y |-> FAdd(a.y, FDiv(FSub(b.y, a.y), F(2)))]

\* DeCasteljauPoints::create
DeCasteljauPointsCreate ==
    [ab |-> Origin, bc |-> Origin, cd |-> Origin,
     abbc |-> Origin, bccd |-> Origin, fin |-> Origin]

\* create_spline that sets s2.d after s1.d has been overwritten
create_spline_late_d(self, s1, s2) ==
    The({The({The({
        [self |-> [ab |-> ab, bc |-> bc, cd |-> cd,
                   abbc |-> abbc, bccd |-> bccd, fin |-> fin],
         s1 |-> [a |-> s1.a,
                 b |-> PointCreate(ab.x, ab.y),
                 c |-> PointCreate(abbc.x, abbc.y),
                 d |-> PointCreate(fin.x, fin.y)],
         s2 |-> [a |-> PointCreate(fin.x, fin.y),
                 b |-> PointCreate(bccd.x, bccd.y),
                 c |-> PointCreate(cd.x, cd.y),
                 d |-> PointCreate(fin.x, fin.y)]]
            : fin \in {lerp_half(abbc, bccd)}})
            : abbc \in {lerp_half(ab, bc)}, bccd \in {lerp_half(bc, cd)}})
            : ab \in {lerp_half(s1.a, s1.b)}, bc \in {lerp_half(s1.b, s1.c)},
              cd \in {lerp_half(s1.c, s1.d)}})

\* DeCasteljauPoints::create_spline: self, s1 and s2 after the call (each
\* midpoint is bound through a singleton so that it is evaluated once)
create_spline(self, s1, s2) ==
    The({The({The({
        [self |-> [ab |-> ab, bc |-> bc, cd |-> cd,
                   abbc |-> abbc, bccd |-> bccd, fin |-> fin],
         s1 |-> [a |-> s1.a,
                 b |-> PointCreate(ab.x, ab.y),
                 c |-> PointCreate(abbc.x, abbc.y),
                 d |-> PointCreate(fin.x, fin.y)],
         s2 |-> [a |-> PointCreate(fin.x, fin.y),
                 b |-> PointCreate(bccd.x, bccd.y),
                 c |-> PointCreate(cd.x, cd.y),
                 d |-> PointCreate(s1.d.x, s1.d.y)]]
            : fin \in {lerp_half(abbc, bccd)}})
            : abbc \in {lerp_half(ab, bc)}, bccd \in {lerp_half(bc, cd)}})
            : ab \in {lerp_half(s1.a, s1.b)}, bc \in {lerp_half(s1.b, s1.c)},
              cd \in {lerp_half(s1.c, s1.d)}})

(***************************************************************************)
(* Pixels and compositing (src/operators.rs).                              *)
(***************************************************************************)
\* the struct Rgba
Rgba(red, green, blue, alpha) ==
    [red |-> red, green |-> green, blue |-> blue, alpha |-> alpha]

\* Rgba::new: the colours are multiplied by alpha
RgbaNew(red, green, blue, alpha) ==
    Rgba(FMul(red, alpha), FMul(green, alpha), FMul(blue, alpha), alpha)

\* impl PartialEq for Rgba
RgbaEq(self, other) ==
    /\ FEq(self.red, other.red)
    /\ FEq(self.green, other.green)
    /\ FEq(self.blue, other.blue)
    /\ FEq(self.alpha, other.alpha)

\* Rgba::correct without the branch for a negative alpha
correct_clamp_only(self) ==
    Rgba(FMaxOf(FMinOf(self.red, F(1)), F(0)),
         FMaxOf(FMinOf(self.green, F(1)), F(0)),
         FMaxOf(FMinOf(self.blue, F(1)), F(0)),
         FMaxOf(FMinOf(self.alpha, F(1)), F(0)))

\* Rgba::correct: self after the call
correct(self) ==
    IF FLt(self.alpha, F(0))
    THEN Rgba(F(0), F(0), F(0), F(0))
    ELSE Rgba(FMaxOf(FMinOf(self.red, F(1)), F(0)),
              FMaxOf(FMinOf(self.green, F(1)), F(0)),
              FMaxOf(FMinOf(self.blue, F(1)), F(0)),
              FMaxOf(FMinOf(self.alpha, F(1)), F(0)))

\* over that weighs the destination with its own alpha
over_destination_alpha(source, destination) ==
    Rgba(FAdd(source.red, FMul(destination.red, FSub(F(1), destination.alpha))),
         FAdd(source.green, FMul(destination.green, FSub(F(1), destination.alpha))),
         FAdd(source.blue, FMul(destination.blue, FSub(F(1), destination.alpha))),
         FAdd(source.alpha, FMul(destination.alpha, FSub(F(1), destination.alpha))))

\* fn over: destination after the call
over(source, destination) ==
    Rgba(FAdd(source.red, FMul(destination.red, FSub(F(1), source.alpha))),
         FAdd(source.green, FMul(destination.green, FSub(F(1), source.alpha))),
         FAdd(source.blue, FMul(destination.blue, FSub(F(1), source.alpha))),
         FAdd(source.alpha, FMul(destination.alpha, FSub(F(1), source.alpha))))

\* fetch_operator(&Operator::Over)
fetch_operator(source, destination) == over(source, destination)

(***************************************************************************)
(* Image surfaces (src/surfaces.rs).  A usize is hi * 2^32 + lo; the       *)
(* halves of the values used here are small, so that the products of two   *)
(* halves stay below 2^32.                                                 *)
(***************************************************************************)
Usize(hi, lo) == [hi |-> hi, lo |-> lo]

\* width * height on usize: the product modulo 2^64, and whether the exact
\* product is 2^64 or more
UsizeMul(a, b) ==
    [value |-> Usize(a.hi * b.lo + a.lo * b.hi, a.lo * b.lo),
     overflow |-> a.hi * b.hi > 0]

\* types::Rgba::new, the Rgba that surfaces.rs uses
TypesRgbaNew(red, green, blue, alpha) == RgbaNew(red, green, blue, alpha)

\* ImageSurface::from_vec
from_vec(vec, width, height) == [base |-> vec, width |-> width, height |-> height]

\* ImageSurface::create that allocates width + height pixels
ImageSurfaceCreateSum(width, height) ==
    from_vec([i \in 1..(width.lo + height.lo) |->
                 TypesRgbaNew(F(0), F(0), F(0), F(0))], width, height)

\* ImageSurface::create: vec![Rgba::new(0., 0., 0., 0.); width * height]
\* where the product has wrapped or has not overflowed
ImageSurfaceCreate(width, height) ==
    from_vec([i \in 1..UsizeMul(width, height).value.lo |->
                 TypesRgbaNew(F(0), F(0), F(0), F(0))], width, height)

\* usize <: the index i is below the usize n
UsizeLt(i, n) == n.hi > 0 \/ i < n.lo

\* Option<Rgba>
Some(pixel) == [some |-> TRUE, pixel |-> pixel]
None == [some |-> FALSE]

\* ImageSurface::iter: an ImageSurfaceRefIterator on the surface
iter(self) == [index |-> 0]

\* ImageSurfaceRefIterator::next: the bound is surface.width * surface.height
\* (wrapped when it overflows), the read is surface.base[index], which
\* panics when index is not below base.len()
ImageSurfaceRefIteratorNext(self, surface) ==
    IF UsizeLt(self.index, UsizeMul(surface.width, surface.height).value)
    THEN IF self.index < Len(surface.base)
         THEN [panic |-> FALSE, self |-> [self EXCEPT !.index = @ + 1],
               item |-> Some(surface.base[self.index + 1])]
         ELSE [panic |-> TRUE, self |-> self, item |-> None]
    ELSE [panic |-> FALSE, self |-> self, item |-> None]

\* IntoIterator::into_iter: an ImageSurfaceIterator that owns the pixels
into_iter(self) ==
    [surface |-> self.base, index |-> 0, width |-> self.width, height |-> self.height]

\* ImageSurfaceIterator::next that does not advance index
ImageSurfaceIteratorNextStuck(self) ==
    IF self.index < Len(self.surface)
    THEN [self |-> self, item |-> Some(self.surface[self.index + 1])]
    ELSE [self |-> self, item |-> None]

\* ImageSurfaceIterator::next: the bound is surface.len()
ImageSurfaceIteratorNext(self) ==
    IF self.index < Len(self.surface)
    THEN [self |-> [self EXCEPT !.index = @ + 1],
          item |-> Some(self.surface[self.index + 1])]
    ELSE [self |-> self, item |-> None]

(***************************************************************************)
(* Inputs.                                                                 *)
(***************************************************************************)
\* the clockwise square of the scenario
SquareEdges ==
    <<create_edge(0, 0, 0, 10, -1), create_edge(0, 10, 10, 10, 0),
      create_edge(10, 10, 10, 0, 1), create_edge(10, 0, 0, 0, 0)>>

\* the trapezoid the scenario expects of the square
SquareTrapezoid ==
    [left |-> LineSegment(0, 0, 0, 10), right |-> LineSegment(10, 0, 10, 10),
     top |-> 0, bottom |-> 10]

\* the edges the edge lists are made of: verticals, two diagonals that cross
\* at (2,2), two edges leaving (0,0) with different slopes, horizontals drawn
\* in both directions and a zero-length edge
EdgePool ==
    {create_edge(0, 0, 0, 2, -1), create_edge(1, 0, 1, 1, 1),
     create_edge(2, 0, 2, 2, 1), create_edge(0, 3, 0, 4, 1),
     create_edge(0, 0, 4, 4, 1), create_edge(4, 0, 0, 4, 1),
     create_edge(0, 0, 1, 2, 1), create_edge(1, 1, 1, 2, 1),
     create_edge(0, 2, 2, 2, 0), create_edge(2, 0, 0, 0, 0),
     create_edge(1, 1, 1, 1, 0)}

\* the two edges of EdgePool that cross, and the point where they do
CrossingA == create_edge(0, 0, 4, 4, 1)
CrossingB == create_edge(4, 0, 0, 4, 1)
CrossingPoint == Pt(2, 2)

\* two distinct edges that leave (0,0) with the same slope
SameSlopeA == create_edge(0, 0, 0, 2, -1)
SameSlopeB == create_edge(0, 0, 0, 4, 1)

\* the edge lists handed to scan
EdgeLists ==
    UNION {[1..n -> EdgePool] : n \in 0..MaxEdges} \cup {SquareEdges}
        \cup {<<SameSlopeA, SameSlopeB>>, <<SameSlopeB, SameSlopeA>>}

\* the events handed to Event::cmp
CmpPoints == {Pt(x, y) : x \in 0..MaxCmpCoord, y \in 0..MaxCmpCoord}
CmpEdges == {create_edge(0, 0, 1, 1, 1), create_edge(1, 0, 0, 1, -1)}
CmpEvents ==
    {NewEvent(e, p, t) : e \in CmpEdges, p \in CmpPoints, t \in EventTypes}

\* the knots handed to create_spline as s1: four points of small coordinates
KnotPoints == {PointCreate(F(x), F(y)) : x \in -1..MaxKnot, y \in 0..1}
SplineInputs ==
    {SplineKnotsCreate(a, b, c, d) :
        a \in KnotPoints, b \in KnotPoints, c \in KnotPoints, d \in KnotPoints}

\* the SplineKnots handed to create_spline as s2: all at the origin, or the
\* second spline of tests::test_create_spline_positive (coordinates rounded)
SplineTargets ==
    {SplineKnotsCreate(Origin, Origin, Origin, Origin),
     SplineKnotsCreate(PointCreate(F(0), F(1)), PointCreate(F(2), F(2)),
                       PointCreate(F(2), F(2)), PointCreate(F(3), F(3)))}

\* the channels of the pixels handed to Rgba::correct: in range, above 1,
\* below 0, the negative zero, the infinities and NaN
ChannelValues ==
    {Fin(i, 2, FALSE) : i \in -MaxHalves..MaxHalves}
        \cup {Fin(0, 1, TRUE), PosInf, NegInf, NaN}
CorrectInputs ==
    {Rgba(r, g, b, a) : r \in ChannelValues, g \in ChannelValues,
                        b \in ChannelValues, a \in ChannelValues}

\* the sources handed to over: those of the tests of operators.rs, opaque
\* and semi-transparent
OverSources ==
    {RgbaNew(F(1), F(0), F(0), F(1)), RgbaNew(F(1), F(1), F(1), F(1)),
     RgbaNew(F(1), F(0), F(0), Fin(1, 2, FALSE)),
     RgbaNew(F(0), F(0), F(1), Fin(1, 2, FALSE))}

\* the destinations handed to over
OverChannels == {F(0), Fin(1, 2, FALSE), F(3), PosInf, NaN}
OverDestinations ==
    {Rgba(r, g, b, a) : r \in OverChannels, g \in OverChannels,
                        b \in OverChannels, a \in OverChannels}

\* the widths and heights handed to ImageSurface::create and from_vec:
\* 0..MaxDim and 2^32
Dims == {Usize(0, n) : n \in 0..MaxDim} \cup {Usize(1, 0)}

\* the sizes handed to ImageSurface::create: those whose product, wrapped
\* or not, is a number of pixels that is small
CreateSizes ==
    {wh \in Dims \X Dims : UsizeMul(wh[1], wh[2]).value.hi = 0}

\* the pixels of the vectors handed to ImageSurface::from_vec
VecPixels ==
    {TypesRgbaNew(F(0), F(0), F(0), F(0)),
     TypesRgbaNew(F(0), F(1), F(1), Fin(1, 2, FALSE)),
     Rgba(PosInf, F(0), F(0), F(1))}

\* the sources painted over a surface
SurfaceSources ==
    {RgbaNew(F(1), F(1), F(1), F(1)), RgbaNew(F(1), F(0), F(0), Fin(1, 2, FALSE))}

\* what is done to get a surface and the source painted over it
SurfaceInputs ==
    {[kind |-> "create", vec |-> <<>>, width |-> wh[1], height |-> wh[2],
      source |-> src] : wh \in CreateSizes, src \in SurfaceSources}
    \cup
    {[kind |-> "from_vec", vec |-> v, width |-> Usize(0, w), height |-> Usize(0, h),
      source |-> src] :
        v \in UNION {[1..n -> VecPixels] : n \in 0..MaxDim},
        w \in 0..1, h \in 0..MaxDim, src \in SurfaceSources}
    \cup
    {[kind |-> "from_vec", vec |-> v, width |-> Usize(1, 0), height |-> Usize(1, 0),
      source |-> src] :
        v \in UNION {[1..n -> VecPixels] : n \in 0..1}, src \in SurfaceSources}

NoSurface == [base |-> <<>>, width |-> Usize(0, 0), height |-> Usize(0, 0)]

\* the iterators before iter() and into_iter() are called
NoRefIter == iter(NoSurface)
NoOwnIter == into_iter(NoSurface)

NoEvent == [event_type |-> "None"]
NoResult == [computed |-> FALSE]

(***************************************************************************)
(* State.                                                                  *)
(***************************************************************************)
VARIABLES
    pc,         \* where the run is: "scan", "loop", "end_search", "done",
                \* "panic" for scan; "cmp", "compared" for Event::cmp;
                \* "spline", "splined" for create_spline; "over",
                \* "composited" for over; "correct", "corrected" for
                \* Rgba::correct; "surface", "create_panic", "paint",
                \* "painted" for the surface; "iter", "iter_panic",
                \* "iter_overflow", "iter_done", "into_iter" for its iterators
    edges,      \* scan's argument
    events,     \* scan's event list
    sl_list,    \* scan's scan line list
    cursor,     \* the cursor on sl_list
    event,      \* the End event whose record is being searched
    result,     \* the Comparator of the End case
    passes,     \* history: the passes of the search loop so far, modulo 2
    traps,      \* scan's return value
    processed,  \* history: the events removed from the event list so far
    removed,    \* history: the records removed from sl_list so far
    cmpIn,      \* the events a, b, c handed to Event::cmp
    cmpOut,     \* the Orderings Event::cmp returned for them
    splIn,      \* the SplineKnots s1, s2 handed to create_spline
    splOut,     \* self, s1 and s2 after create_spline
    pixIn,      \* the pixels handed to over (source, destination) or correct
    pixOut,     \* the pixel after over, or after correct and correct again
    surfIn,     \* how the surface is made and the source painted over it
    surface,    \* the ImageSurface
    index,      \* the pixels the iter_mut loop has gone over
    refIter,    \* the ImageSurfaceRefIterator of surface.iter()
    refCalls,   \* what its calls of next have returned
    ownIter,    \* the ImageSurfaceIterator of surface.into_iter()
    ownCalls    \* what its calls of next have returned

iterVars == <<refIter, refCalls, ownIter, ownCalls>>

pixelVars == <<pixIn, pixOut, surfIn, surface, index, iterVars>>

vars == <<pc, edges, events, sl_list, cursor, event, result, passes, traps,
          processed, removed, cmpIn, cmpOut, splIn, splOut, pixelVars>>

\* the iterators at rest
IterIdle ==
    /\ refIter = NoRefIter
    /\ refCalls = <<>>
    /\ ownIter = NoOwnIter
    /\ ownCalls = <<>>

\* the variables of over, correct and the surface at rest
PixelIdle ==
    /\ pixIn = <<>>
    /\ pixOut = NoResult
    /\ surfIn = <<>>
    /\ surface = NoSurface
    /\ index = 0
    /\ IterIdle

\* the variables of scan, Event::cmp and create_spline at rest
OthersIdle ==
    /\ edges = <<>>
    /\ events = <<>>
    /\ sl_list = <<>>
    /\ cursor = 0
    /\ event = NoEvent
    /\ result = "Empty"
    /\ passes = 0
    /\ traps = <<>>
    /\ processed = <<>>
    /\ removed = <<>>
    /\ cmpIn = <<>>
    /\ cmpOut = NoResult
    /\ splIn = <<>>
    /\ splOut = NoResult

scanVars == <<edges, events, sl_list, cursor, event, result, passes, traps,
              processed, removed>>

\* scan is called with a list of edges
ScanInit ==
    /\ pc = "scan"
    /\ edges \in EdgeLists
    /\ events = <<>>
    /\ sl_list = <<>>
    /\ cursor = 0
    /\ event = NoEvent
    /\ result = "Empty"
    /\ passes = 0
    /\ traps = <<>>
    /\ processed = <<>>
    /\ removed = <<>>
    /\ cmpIn = <<>>
    /\ cmpOut = NoResult
    /\ splIn = <<>>
    /\ splOut = NoResult
    /\ PixelIdle

\* Event::cmp is called on events a, b, c
CmpInit ==
    /\ pc = "cmp"
    /\ edges = <<>>
    /\ events = <<>>
    /\ sl_list = <<>>
    /\ cursor = 0
    /\ event = NoEvent
    /\ result = "Empty"
    /\ passes = 0
    /\ traps = <<>>
    /\ processed = <<>>
    /\ removed = <<>>
    /\ cmpIn \in CmpEvents \X CmpEvents \X CmpEvents
    /\ cmpOut = NoResult
    /\ splIn = <<>>
    /\ splOut = NoResult
    /\ PixelIdle

\* DeCasteljauPoints::create().create_spline is called on s1, s2
SplineInit ==
    /\ pc = "spline"
    /\ edges = <<>>
    /\ events = <<>>
    /\ sl_list = <<>>
    /\ cursor = 0
    /\ event = NoEvent
    /\ result = "Empty"
    /\ passes = 0
    /\ traps = <<>>
    /\ processed = <<>>
    /\ removed = <<>>
    /\ cmpIn = <<>>
    /\ cmpOut = NoResult
    /\ splIn \in SplineInputs \X SplineTargets
    /\ splOut = NoResult
    /\ PixelIdle

\* over is called on a source and a destination
OverInit ==
    /\ pc = "over"
    /\ OthersIdle
    /\ pixIn \in OverSources \X OverDestinations
    /\ pixOut = NoResult
    /\ surfIn = <<>>
    /\ surface = NoSurface
    /\ index = 0
    /\ IterIdle

\* Rgba::correct is called on a pixel
CorrectInit ==
    /\ pc = "correct"
    /\ OthersIdle
    /\ pixIn \in {<<p>> : p \in CorrectInputs}
    /\ pixOut = NoResult
    /\ surfIn = <<>>
    /\ surface = NoSurface
    /\ index = 0
    /\ IterIdle

\* a surface is made, by ImageSurface::create or from_vec, to be painted
SurfaceInit ==
    /\ pc = "surface"
    /\ OthersIdle
    /\ pixIn = <<>>
    /\ pixOut = NoResult
    /\ surfIn \in SurfaceInputs
    /\ surface = NoSurface
    /\ index = 0
    /\ IterIdle

Init == ScanInit \/ CmpInit \/ SplineInit \/ OverInit \/ CorrectInit \/ SurfaceInit

(***************************************************************************)
(* scan                                                                    *)
(***************************************************************************)
\* scan up to the loop: the empty list, its cursor and the event list
ScanBegin ==
    /\ pc = "scan"
    /\ sl_list' = <<>>
    /\ cursor' = 0
    /\ events' = event_list_from_edges(edges)
    /\ pc' = "loop"
    /\ UNCHANGED <<edges, event, result, passes, traps, processed, removed,
                   cmpIn, cmpOut, splIn, splOut, pixelVars>>

\* one pass of the loop for a Start event: the record is inserted, printed
\* (cursor.next() yields the record just inserted) and the list is printed
ProcessStart ==
    /\ pc = "loop"
    /\ events # <<>>
    /\ Head(events).event_type = "Start"
    /\ LET ev == Head(events)
           scan_line == ev.point.y
           left == min_x_point(ev.edge_left.line).x
           sl_edge == ScanLineEdge(scan_line, left, ev.edge_left.line)
       IN  /\ sl_list' = CursorInsert(sl_list, StartInsertAt(sl_list, ev), sl_edge)
           /\ cursor' = PrintWalk(sl_list', 0)
           /\ processed' = Append(processed, ev)
    /\ events' = Tail(events)
    /\ UNCHANGED <<pc, edges, event, result, passes, traps, removed, cmpIn, cmpOut, splIn, splOut, pixelVars>>

\* the End case up to its search loop: the event is taken off the list and
\* the cursor reset
ProcessEnd ==
    /\ pc = "loop"
    /\ events # <<>>
    /\ Head(events).event_type = "End"
    /\ event' = Head(events)
    /\ events' = Tail(events)
    /\ processed' = Append(processed, Head(events))
    /\ result' = "Empty"
    /\ passes' = 0
    /\ cursor' = 0
    /\ pc' = "end_search"
    /\ UNCHANGED <<edges, sl_list, traps, removed, cmpIn, cmpOut, splIn, splOut, pixelVars>>

\* the cursor of a pass of the search loop once the ghost has been stepped over
SearchCursor == IF PeekNextIsNone(sl_list, cursor)
                THEN CursorPrev(sl_list, cursor) ELSE cursor

\* what find_line_place reports in a pass of the search loop
SearchResult ==
    find_line_place(event.point, event.edge_left.line, sl_list[SearchCursor + 1])

\* the search loop is left: cursor.remove() and the printing of the list
RemoveAtCursor ==
    /\ removed' = IF PeekNextIsNone(sl_list, SearchCursor) THEN removed
                  ELSE Append(removed, sl_list[SearchCursor + 1])
    /\ sl_list' = CursorRemove(sl_list, SearchCursor)
    /\ cursor' = PrintWalk(sl_list', 0)
    /\ event' = NoEvent
    /\ pc' = "loop"

\* a pass of the search loop that unwraps peek_next() of an empty list
EndSearchPanic ==
    /\ pc = "end_search"
    /\ PeekNextIsNone(sl_list, SearchCursor)
    /\ cursor' = SearchCursor
    /\ pc' = "panic"
    /\ UNCHANGED <<edges, events, sl_list, event, result, passes, traps,
                   processed, removed, cmpIn, cmpOut, splIn, splOut, pixelVars>>

\* a pass that finds Equal: the loop is left and the record removed
EndSearchEqual ==
    /\ pc = "end_search"
    /\ ~PeekNextIsNone(sl_list, SearchCursor)
    /\ SearchResult = "Equal"
    /\ result' = "Equal"
    /\ passes' = 0
    /\ RemoveAtCursor
    /\ UNCHANGED <<edges, events, traps, processed, cmpIn, cmpOut, splIn, splOut, pixelVars>>

\* a pass that finds Greater: cursor.prev() and another pass
EndSearchGreater ==
    /\ pc = "end_search"
    /\ ~PeekNextIsNone(sl_list, SearchCursor)
    /\ SearchResult = "Greater"
    /\ result' = "Greater"
    /\ passes' = 1 - passes
    /\ cursor' = CursorPrev(sl_list, SearchCursor)
    /\ UNCHANGED <<pc, edges, events, sl_list, event, traps, processed,
                   removed, cmpIn, cmpOut, splIn, splOut, pixelVars>>

\* a pass that finds neither ("Failed to remove"): the loop is left and the
\* record after the cursor removed
EndSearchFailed ==
    /\ pc = "end_search"
    /\ ~PeekNextIsNone(sl_list, SearchCursor)
    /\ SearchResult \notin {"Equal", "Greater"}
    /\ result' = SearchResult
    /\ passes' = 0
    /\ RemoveAtCursor
    /\ UNCHANGED <<edges, events, traps, processed, cmpIn, cmpOut, splIn, splOut, pixelVars>>

\* scan that returns a trapezoid of no height
ScanReturnFlatTrapezoid ==
    /\ pc = "loop"
    /\ events = <<>>
    /\ traps' = <<[left |-> LineSegment(0, 0, 0, 0),
                   right |-> LineSegment(0, 0, 0, 0), top |-> 0, bottom |-> 0]>>
    /\ pc' = "done"
    /\ UNCHANGED <<edges, events, sl_list, cursor, event, result, passes,
                   processed, removed, cmpIn, cmpOut, splIn, splOut, pixelVars>>

\* the event list is empty: scan returns Vec::new()
ScanReturn ==
    /\ pc = "loop"
    /\ events = <<>>
    /\ traps' = <<>>
    /\ pc' = "done"
    /\ UNCHANGED <<edges, events, sl_list, cursor, event, result, passes,
                   processed, removed, cmpIn, cmpOut, splIn, splOut, pixelVars>>

(***************************************************************************)
(* Event::cmp                                                              *)
(***************************************************************************)
\* Event::cmp applied to the pairs of a, b, c, and == to a and b
EventCompare ==
    /\ pc = "cmp"
    /\ LET a == cmpIn[1]
           b == cmpIn[2]
           c == cmpIn[3]
       IN  cmpOut' = [computed |-> TRUE,
                      aa |-> EventCmp(a, a), ab |-> EventCmp(a, b),
                      ba |-> EventCmp(b, a), bc |-> EventCmp(b, c),
                      ac |-> EventCmp(a, c), eq |-> EventEq(a, b)]
    /\ pc' = "compared"
    /\ UNCHANGED <<scanVars, cmpIn, splIn, splOut, pixelVars>>

(***************************************************************************)
(* DeCasteljauPoints::create_spline                                        *)
(***************************************************************************)
\* create_spline applied to a fresh DeCasteljauPoints and s1, s2
CreateSpline ==
    /\ pc = "spline"
    /\ splOut' = [computed |-> TRUE] @@
                     create_spline(DeCasteljauPointsCreate, splIn[1], splIn[2])
    /\ pc' = "splined"
    /\ UNCHANGED <<scanVars, cmpIn, cmpOut, splIn, pixelVars>>

(***************************************************************************)
(* over, Rgba::correct                                                     *)
(***************************************************************************)
\* over(&source, &mut destination)
OverApply ==
    /\ pc = "over"
    /\ pixOut' = [computed |-> TRUE, destination |-> over(pixIn[1], pixIn[2])]
    /\ pc' = "composited"
    /\ UNCHANGED <<scanVars, cmpIn, cmpOut, splIn, splOut, pixIn, surfIn,
                   surface, index, iterVars>>

\* color.correct(), and color.correct() again
CorrectApply ==
    /\ pc = "correct"
    /\ pixOut' = The({[computed |-> TRUE, once |-> c, twice |-> correct(c)] :
                         c \in {correct(pixIn[1])}})
    /\ pc' = "corrected"
    /\ UNCHANGED <<scanVars, cmpIn, cmpOut, splIn, splOut, pixIn, surfIn,
                   surface, index, iterVars>>

(***************************************************************************)
(* ImageSurface and the loop that paints it                                *)
(*   for mut pixel in destination.iter_mut() { operator(&source, pixel) }  *)
(***************************************************************************)
\* ImageSurface::create(width, height) returns: width * height has not
\* overflowed, or it has wrapped (a build without overflow checks)
SurfaceCreate ==
    /\ pc = "surface"
    /\ surfIn.kind = "create"
    /\ surface' = ImageSurfaceCreate(surfIn.width, surfIn.height)
    /\ index' = 0
    /\ pc' = "paint"
    /\ UNCHANGED <<scanVars, cmpIn, cmpOut, splIn, splOut, pixIn, pixOut, surfIn,
                   iterVars>>

\* ImageSurface::create(width, height) panics: width * height overflows (a
\* build with overflow checks)
SurfaceCreateOverflow ==
    /\ pc = "surface"
    /\ surfIn.kind = "create"
    /\ UsizeMul(surfIn.width, surfIn.height).overflow
    /\ pc' = "create_panic"
    /\ UNCHANGED <<scanVars, cmpIn, cmpOut, splIn, splOut, pixelVars>>

\* ImageSurface::from_vec(vec, width, height)
SurfaceFromVec ==
    /\ pc = "surface"
    /\ surfIn.kind = "from_vec"
    /\ surface' = from_vec(surfIn.vec, surfIn.width, surfIn.height)
    /\ index' = 0
    /\ pc' = "paint"
    /\ UNCHANGED <<scanVars, cmpIn, cmpOut, splIn, splOut, pixIn, pixOut, surfIn,
                   iterVars>>

\* one pass of the loop over iter_mut(): the operator on the next pixel
PaintPixel ==
    /\ pc = "paint"
    /\ index < Len(surface.base)
    /\ surface' = [surface EXCEPT !.base[index + 1] =
                       fetch_operator(surfIn.source, surface.base[index + 1])]
    /\ index' = index + 1
    /\ UNCHANGED <<pc, scanVars, cmpIn, cmpOut, splIn, splOut, pixIn, pixOut, surfIn,
                   iterVars>>

\* iter_mut() is exhausted: the loop is left
PaintDone ==
    /\ pc = "paint"
    /\ index >= Len(surface.base)
    /\ pc' = "painted"
    /\ UNCHANGED <<scanVars, cmpIn, cmpOut, splIn, splOut, pixelVars>>

(***************************************************************************)
(* The iterators of ImageSurface: surface.iter() run to its None, then     *)
(* surface.into_iter() called on past its None                             *)
(***************************************************************************)
\* surface.iter()
IterCreate ==
    /\ pc = "painted"
    /\ refIter' = iter(surface)
    /\ pc' = "iter"
    /\ UNCHANGED <<scanVars, cmpIn, cmpOut, splIn, splOut, pixIn, pixOut, surfIn,
                   surface, index, refCalls, ownIter, ownCalls>>

\* ImageSurfaceRefIterator::next: a pixel, None, or the panic of an index
\* out of bounds
RefNext ==
    /\ pc = "iter"
    /\ refIter' = ImageSurfaceRefIteratorNext(refIter, surface).self
    /\ refCalls' = IF ImageSurfaceRefIteratorNext(refIter, surface).panic
                   THEN refCalls
                   ELSE Append(refCalls, ImageSurfaceRefIteratorNext(refIter, surface).item)
    /\ pc' = IF ImageSurfaceRefIteratorNext(refIter, surface).panic THEN "iter_panic"
             ELSE IF ImageSurfaceRefIteratorNext(refIter, surface).item.some THEN "iter"
             ELSE "iter_done"
    /\ UNCHANGED <<scanVars, cmpIn, cmpOut, splIn, splOut, pixIn, pixOut, surfIn,
                   surface, index, ownIter, ownCalls>>

\* ImageSurfaceRefIterator::next panics: width * height overflows (a build
\* with overflow checks)
RefNextOverflow ==
    /\ pc = "iter"
    /\ UsizeMul(surface.width, surface.height).overflow
    /\ pc' = "iter_overflow"
    /\ UNCHANGED <<scanVars, cmpIn, cmpOut, splIn, splOut, pixelVars>>

\* surface.into_iter()
IntoIter ==
    /\ pc = "iter_done"
    /\ ownIter' = into_iter(surface)
    /\ pc' = "into_iter"
    /\ UNCHANGED <<scanVars, cmpIn, cmpOut, splIn, splOut, pixIn, pixOut, surfIn,
                   surface, index, refIter, refCalls, ownCalls>>

\* how many of the calls have returned None
CountNone(calls) == Cardinality({k \in 1..Len(calls) : ~calls[k].some})

\* ImageSurfaceIterator::next, called on after None up to MaxNones times
OwnNext ==
    /\ pc = "into_iter"
    /\ CountNone(ownCalls) < MaxNones
    /\ ownIter' = ImageSurfaceIteratorNext(ownIter).self
    /\ ownCalls' = Append(ownCalls, ImageSurfaceIteratorNext(ownIter).item)
    /\ UNCHANGED <<pc, scanVars, cmpIn, cmpOut, splIn, splOut, pixIn, pixOut, surfIn,
                   surface, index, refIter, refCalls>>

Next ==
    \/ ScanBegin
    \/ ProcessStart
    \/ ProcessEnd
    \/ EndSearchPanic
    \/ EndSearchEqual
    \/ EndSearchGreater
    \/ EndSearchFailed
    \/ ScanReturn
    \/ EventCompare
    \/ CreateSpline
    \/ OverApply
    \/ CorrectApply
    \/ SurfaceCreate
    \/ SurfaceCreateOverflow
    \/ SurfaceFromVec
    \/ PaintPixel
    \/ PaintDone
    \/ IterCreate
    \/ RefNext
    \/ RefNextOverflow
    \/ IntoIter
    \/ OwnNext

Spec == Init /\ [][Next]_vars

\* scan runs to its end: no step of it waits for anything
FairSpec == Spec /\ WF_vars(Next)

TypeOK ==
    /\ pc \in {"scan", "loop", "end_search", "done", "panic", "cmp", "compared",
              "spline", "splined", "over", "composited", "correct",
              "corrected", "surface", "create_panic", "paint", "painted",
              "iter", "iter_panic", "iter_overflow", "iter_done", "into_iter"}
    /\ refIter.index \in 0..Len(surface.base)
    /\ ownIter.index \in 0..Len(ownIter.surface)
    /\ index \in 0..Len(surface.base)
    /\ cursor \in 0..Len(sl_list)
    /\ result \in {"Greater", "Less", "Equal", "Empty"}
    /\ passes \in {0, 1}

(***************************************************************************)
(* Properties.                                                             *)
(***************************************************************************)
\* the state in which events is what event_list_from_edges returned
EventListBuilt == pc = "loop" /\ processed = <<>>

\* scan is between two events, after at least one
EventProcessed == pc \in {"loop", "done"} /\ processed # <<>>

\* the y of the event processed last
scan_line == processed[Len(processed)].point.y

\* scan has come to its end: it has returned, or it has panicked
ScanEnded == pc \in {"done", "panic"}

\* the sequence s without its i-th element
Without(s, i) == SubSeq(s, 1, i - 1) \o SubSeq(s, i + 1, Len(s))

\* the order the design asks of the kinds: End, Intersection, Start
KindRank(t) == CASE t = "End" -> 1 [] t = "Intersection" -> 2 [] t = "Start" -> 3

Reverse(o) == CASE o = "Less" -> "Greater" [] o = "Greater" -> "Less" [] o = "Equal" -> "Equal"

\* C1: scan of the four edges of the clockwise square returns exactly one
\* trapezoid, left (0,0)-(0,10), right (10,0)-(10,10), top 0, bottom 10.
C1_SquareOneTrapezoid ==
    (edges = SquareEdges /\ ScanEnded) =>
        (pc = "done" /\ traps = <<SquareTrapezoid>>)

\* C2: for every edge list scan terminates: the search loop of every End
\* event is left and the event list becomes empty.  Stated so that any end of
\* scan counts, a panic too: a run that violates it is in a loop for ever.
C2_ScanTerminates ==
    (pc = "scan") ~> (pc = "panic" \/ (pc = "done" /\ events = <<>>))

\* C3: the record removed for the End event of edge e is the record of e
\* (its line equals e's line) and every other record stays.
C3_EndRemovesItsEdge ==
    [][(pc = "end_search" /\ pc' = "loop") =>
          \E i \in 1..Len(sl_list) :
              /\ LineEq(sl_list[i].line, event.edge_left.line)
              /\ sl_list' = Without(sl_list, i)]_vars

\* C4: after every event the records of the scan line list are in
\* left-to-right order at the sweep y: each record's x at scan_line is at
\* most the x of the record after it (no record lies right of its successor;
\* an x that is NaN is not held against the order).
C4_ActiveListSorted ==
    EventProcessed =>
        \A i \in 1..(Len(sl_list) - 1) :
            ~FGt(current_x_for_y(sl_list[i], scan_line),
                 current_x_for_y(sl_list[i + 1], scan_line))

\* C5: among events at the same point scan processes End before Intersection
\* before Start, and Event::cmp on two events with the same point and
\* different kinds returns End < Intersection < Start.
C5_KindOrderAtPoint ==
    /\ \A i, j \in 1..Len(processed) :
           (i < j /\ processed[i].point = processed[j].point) =>
               KindRank(processed[i].event_type) <= KindRank(processed[j].event_type)
    /\ (cmpOut.computed /\ cmpIn[1].point = cmpIn[2].point
            /\ cmpIn[1].event_type # cmpIn[2].event_type) =>
           cmpOut.ab = (IF KindRank(cmpIn[1].event_type) < KindRank(cmpIn[2].event_type)
                        THEN "Less" ELSE "Greater")

\* scan has processed an End event and then a Start event at the same point
C5_Witness ==
    \E i, j \in 1..Len(processed) :
        /\ i < j
        /\ processed[i].point = processed[j].point
        /\ processed[i].event_type = "End"
        /\ processed[j].event_type = "Start"

\* Event::cmp has compared an Intersection event with an End event at its point
C5_CmpReached ==
    /\ cmpOut.computed
    /\ cmpIn[1].point = cmpIn[2].point
    /\ cmpIn[1].event_type = "Intersection"
    /\ cmpIn[2].event_type = "End"

\* C6: Event::cmp is a total order: a.cmp(b) is the reverse of b.cmp(a),
\* a.cmp(a) is Equal, and the relation is transitive.
C6_CmpTotalOrder ==
    cmpOut.computed =>
        /\ cmpOut.ab = Reverse(cmpOut.ba)
        /\ cmpOut.aa = "Equal"
        /\ (cmpOut.ab = "Less" /\ cmpOut.bc = "Less") => cmpOut.ac = "Less"
        /\ (cmpOut.ab # "Greater" /\ cmpOut.bc # "Greater") => cmpOut.ac # "Greater"

C8_OrderByYThenX ==
    cmpOut.computed =>
        /\ cmpIn[1].point.y < cmpIn[2].point.y =>
              (cmpOut.ab = "Less" /\ cmpOut.ba = "Greater")
        /\ (cmpIn[1].point.y = cmpIn[2].point.y
               /\ cmpIn[1].point.x < cmpIn[2].point.x) =>
              (cmpOut.ab = "Less" /\ cmpOut.ba = "Greater")

\* an event with the smaller y, the larger x and the larger kind was compared
C8_Witness ==
    /\ cmpOut.computed
    /\ cmpIn[1].point.y < cmpIn[2].point.y
    /\ cmpIn[1].point.x > cmpIn[2].point.x
    /\ cmpIn[1].event_type = "Start"
    /\ cmpIn[2].event_type = "End"

\* the number of events of kind t that event_list_from_edges made for edge e
EventsOf(e, t) ==
    Cardinality({k \in 1..Len(events) :
                    events[k].edge_left = e /\ events[k].event_type = t})

\* the number of times edge e is in the input
TimesIn(e) == Cardinality({i \in 1..Len(edges) : edges[i] = e})

Endpoints(e) == {e.line.point1, e.line.point2}

\* C9: event_list_from_edges returns exactly two events for each input edge:
\* one Start at the endpoint with the smaller y and one End at the endpoint
\* with the larger y.
C9_TwoEventsPerEdge ==
    EventListBuilt =>
        /\ Len(events) = 2 * Len(edges)
        /\ \A i \in 1..Len(edges) :
              /\ EventsOf(edges[i], "Start") = TimesIn(edges[i])
              /\ EventsOf(edges[i], "End") = TimesIn(edges[i])
        /\ \A k \in 1..Len(events) :
              /\ events[k].point \in Endpoints(events[k].edge_left)
              /\ events[k].event_type = "Start" =>
                    events[k].point.y = events[k].edge_left.top
              /\ events[k].event_type = "End" =>
                    events[k].point.y = events[k].edge_left.bottom

\* C10: for a horizontal edge every Start event is at the left endpoint and
\* every End event at the right endpoint, whichever endpoint is point1.
C10_HorizontalLeftToRight ==
    EventListBuilt =>
        \A k \in 1..Len(events) :
            LET e == events[k].edge_left
            IN  e.top = e.bottom =>
                  /\ events[k].point \in Endpoints(e)
                  /\ events[k].event_type = "Start" =>
                        events[k].point.x = Min(e.line.point1.x, e.line.point2.x)
                  /\ events[k].event_type = "End" =>
                        events[k].point.x = Max(e.line.point1.x, e.line.point2.x)

\* p is before q, or at q, in the order of the sweep: by y, then by x
PointLe(p, q) == p.y < q.y \/ (p.y = q.y /\ p.x <= q.x)

\* C11: the list event_list_from_edges returns is sorted, each event's (y, x)
\* lexicographically at most that of the next event, and the sweep position
\* scan_line never decreases from one processed event to the next.
C11_EventListSorted ==
    /\ EventListBuilt =>
           \A k \in 1..(Len(events) - 1) :
               PointLe(events[k].point, events[k + 1].point)
    /\ \A k \in 1..(Len(processed) - 1) :
           processed[k].point.y <= processed[k + 1].point.y

\* scan was given an edge that starts lower before an edge that starts higher
\* and has processed events at more than one sweep position
C11_Witness ==
    /\ Len(edges) >= 2
    /\ edges[1].top > edges[2].bottom
    /\ Len(processed) >= 3
    /\ processed[1].point.y < processed[Len(processed)].point.y
    /\ processed[1].edge_left = edges[2]

\* the y of the endpoint of the event's edge that is not the event's point
OtherEndY(ev) ==
    IF ev.point = ev.edge_left.line.point1
    THEN ev.edge_left.line.point2.y ELSE ev.edge_left.line.point1.y

\* C12: the sorted event list does not depend on the order of the input:
\* events with the same point and the same kind are in ascending order of
\* the y of their edge's other endpoint.
C12_SortByEdgeAtSamePoint ==
    EventListBuilt =>
        \A i, j \in 1..Len(events) :
            (i < j /\ events[i].point = events[j].point
                   /\ events[i].event_type = events[j].event_type) =>
                OtherEndY(events[i]) <= OtherEndY(events[j])

\* the End events processed so far, in order
EndsProcessed == SelectSeq(processed, LAMBDA e : e.event_type = "End")

\* C13: when the event list is empty and scan returns, the scan line list
\* holds no record, for every input edge list.
C13_ListEmptyAtReturn == pc = "done" => sl_list = <<>>

\* scan has returned after removing, for some End event, another edge's record
C13_Witness ==
    /\ pc = "done"
    /\ Len(removed) = Len(EndsProcessed)
    /\ \E k \in 1..Len(removed) :
           ~LineEq(removed[k].line, EndsProcessed[k].edge_left.line)

\* C14: a Start event for an edge whose line is the line of a record already
\* in the scan line list (the walk stops at a record for which
\* find_line_place reports Equal) inserts no second record.
C14_NoSecondRecord ==
    [][(/\ pc = "loop"
        /\ events # <<>>
        /\ Head(events).event_type = "Start"
        /\ ~PeekNextIsNone(sl_list, StartInsertAt(sl_list, Head(events)))
        /\ find_line_place(Head(events).point, Head(events).edge_left.line,
               sl_list[StartInsertAt(sl_list, Head(events)) + 1]) = "Equal")
          => sl_list' = sl_list]_vars

\* C15: scan never aborts: for every edge list no step panics.  (scan
\* returns a Vec of trapezoids, so there is no failure value to state.)
C15_ScanNeverPanics == pc # "panic"

HasEdge(e) == \E i \in 1..Len(edges) : edges[i] = e

\* the positions in processed of the events of kind t of edge e
Positions(e, t) ==
    {k \in 1..Len(processed) :
        processed[k].edge_left = e /\ processed[k].event_type = t}

\* C16: when two input edges cross strictly inside both, scan processes an
\* Intersection event at the crossing point after both edges' Start events
\* and before either End event (the event at which the two records are
\* swapped).  Stated at the first End event of either edge: by then the
\* Intersection event is among the processed events.
C16_IntersectionProcessed ==
    (/\ HasEdge(CrossingA) /\ HasEdge(CrossingB)
     /\ Positions(CrossingA, "End") \cup Positions(CrossingB, "End") # {}) =>
        \E k \in 1..Len(processed) :
            /\ processed[k].event_type = "Intersection"
            /\ processed[k].point = CrossingPoint
            /\ \E i \in Positions(CrossingA, "Start") : i < k
            /\ \E i \in Positions(CrossingB, "Start") : i < k
            /\ \A i \in Positions(CrossingA, "End") \cup Positions(CrossingB, "End") : k < i

ZeroLength(e) == e.line.point1 = e.line.point2

\* the processed events that are not of a zero-length edge: what scan has
\* processed if the zero-length edges are absent from the input
ProcessedWithoutZeroLength ==
    SelectSeq(processed, LAMBDA e : ~ZeroLength(e.edge_left))

\* the events of the zero-length edges have all been processed
ZeroLengthProcessed ==
    /\ pc \in {"loop", "done"}
    /\ \E k \in 1..Len(processed) : ZeroLength(processed[k].edge_left)
    /\ \A k \in 1..Len(events) : ~ZeroLength(events[k].edge_left)

\* C17: a zero-length edge has no effect on the scan line list: scan does
\* not stop at its events, and once they are processed the list holds the
\* records, in the order, that it holds after the same events of the other
\* edges when the zero-length edge is absent.
C17_ZeroLengthNoEffect ==
    /\ pc = "panic" => ~ZeroLength(event.edge_left)
    /\ (ZeroLengthProcessed
          /\ ListAfterEvents(ProcessedWithoutZeroLength,
                             Len(ProcessedWithoutZeroLength)).ok) =>
           sl_list = ListAfterEvents(ProcessedWithoutZeroLength,
                                     Len(ProcessedWithoutZeroLength)).list

ListAfterProcessed ==
    pc \in {"loop", "done"} =>
        /\ ListAfterEvents(processed, Len(processed)).ok
        /\ ListAfterEvents(processed, Len(processed)).list = sl_list

\* the f32 v is the number n/d
IsRatio(v, n, d) == v.k = "fin" /\ v.n * d = n * v.d

\* the point p is (nx/d, ny/d)
IsPoint(p, nx, ny, d) == IsRatio(p.x, nx, d) /\ IsRatio(p.y, ny, d)

\* C20: create_spline(s1, s2) splits the curve s1 at its midpoint:
\* afterwards s2 = (fin, bccd, cd, original s1.d) and s1 = (original s1.a,
\* ab, abbc, fin), so s1.d equals s2.a, where ab = (a+b)/2, bc = (b+c)/2,
\* cd = (c+d)/2, abbc = (a+2b+c)/4, bccd = (b+2c+d)/4, fin = (a+3b+3c+d)/8
\* are the successive midpoints of the original knots a, b, c, d of s1;
\* what s2 held before does not matter.
C20_SplineSplitAtMidpoint ==
    splOut.computed =>
        LET a == [x |-> splIn[1].a.x.n, y |-> splIn[1].a.y.n]
            b == [x |-> splIn[1].b.x.n, y |-> splIn[1].b.y.n]
            c == [x |-> splIn[1].c.x.n, y |-> splIn[1].c.y.n]
            d == [x |-> splIn[1].d.x.n, y |-> splIn[1].d.y.n]
        IN  /\ splOut.s1.a = splIn[1].a
            /\ IsPoint(splOut.s1.b, a.x + b.x, a.y + b.y, 2)
            /\ IsPoint(splOut.s1.c, a.x + 2 * b.x + c.x, a.y + 2 * b.y + c.y, 4)
            /\ IsPoint(splOut.s1.d, a.x + 3 * b.x + 3 * c.x + d.x,
                                    a.y + 3 * b.y + 3 * c.y + d.y, 8)
            /\ IsPoint(splOut.s2.a, a.x + 3 * b.x + 3 * c.x + d.x,
                                    a.y + 3 * b.y + 3 * c.y + d.y, 8)
            /\ IsPoint(splOut.s2.b, b.x + 2 * c.x + d.x, b.y + 2 * c.y + d.y, 4)
            /\ IsPoint(splOut.s2.c, c.x + d.x, c.y + d.y, 2)
            /\ splOut.s2.d = splIn[1].d
            /\ FEq(splOut.s1.d.x, splOut.s2.a.x)
            /\ FEq(splOut.s1.d.y, splOut.s2.a.y)
            /\ splOut.self.ab = splOut.s1.b
            /\ splOut.self.abbc = splOut.s1.c
            /\ splOut.self.fin = splOut.s2.a
            /\ splOut.self.bccd = splOut.s2.b
            /\ splOut.self.cd = splOut.s2.c

\* create_spline has split a curve whose end is not its midpoint into an s2
\* that held other knots before
C20_Witness ==
    /\ splOut.computed
    /\ splIn[2].d # splIn[1].d
    /\ splIn[2].a # Origin
    /\ splOut.s2.a # splIn[1].d
    /\ splOut.s1.b # splIn[1].b
    /\ ~IsRatio(splOut.s2.a.x, splOut.s2.a.x.n, 1)

\* the four channels of the pixel are finite numbers
RgbaFinite(p) ==
    p.red.k = "fin" /\ p.green.k = "fin" /\ p.blue.k = "fin" /\ p.alpha.k = "fin"

\* the pixel the i-th pixel of the surface was before it was painted
PixelBefore(i) ==
    IF surfIn.kind = "from_vec" THEN surfIn.vec[i]
    ELSE Rgba(F(0), F(0), F(0), F(0))

\* C21, as claimed: over with an opaque source (source.alpha = 1) leaves
\* destination equal to source in all four channels, for every destination;
\* applied to every pixel of an ImageSurface it makes every pixel equal to
\* the source.
C21_OpaqueSourceCovers ==
    /\ (pc = "composited" /\ FEq(pixIn[1].alpha, F(1))) =>
           RgbaEq(pixOut.destination, pixIn[1])
    /\ (pc = "painted" /\ FEq(surfIn.source.alpha, F(1))) =>
           \A i \in 1..Len(surface.base) : RgbaEq(surface.base[i], surfIn.source)

\* C21, amended: over with an opaque source leaves destination equal to
\* source in all four channels for every destination whose channels are
\* finite (source finite too); applied to every pixel of an ImageSurface it
\* makes every pixel that was finite equal to the source.
C21_OpaqueSourceCoversFinite ==
    /\ (pc = "composited" /\ FEq(pixIn[1].alpha, F(1))
           /\ RgbaFinite(pixIn[1]) /\ RgbaFinite(pixIn[2])) =>
           RgbaEq(pixOut.destination, pixIn[1])
    /\ (pc = "painted" /\ FEq(surfIn.source.alpha, F(1))
           /\ RgbaFinite(surfIn.source)) =>
           \A i \in 1..Len(surface.base) :
               RgbaFinite(PixelBefore(i)) => RgbaEq(surface.base[i], surfIn.source)

\* over has put an opaque source over a finite destination that was not
\* transparent and differed from the source in every channel
C21_Witness ==
    /\ pc = "composited"
    /\ FEq(pixIn[1].alpha, F(1))
    /\ RgbaFinite(pixIn[2])
    /\ ~FEq(pixIn[2].red, pixIn[1].red)
    /\ ~FEq(pixIn[2].green, pixIn[1].green)
    /\ ~FEq(pixIn[2].blue, pixIn[1].blue)
    /\ ~FEq(pixIn[2].alpha, pixIn[1].alpha)
    /\ ~IsZero(pixIn[2].alpha)

\* an opaque source has been painted over a surface of several pixels, some
\* of them not transparent
C21_SurfacePainted ==
    /\ pc = "painted"
    /\ FEq(surfIn.source.alpha, F(1))
    /\ Len(surface.base) >= 2
    /\ \E i \in 1..Len(surface.base) :
           RgbaFinite(PixelBefore(i)) /\ ~IsZero(PixelBefore(i).alpha)

\* the f32 lies between 0 and 1
InUnit(v) == v.k = "fin" /\ 0 <= v.n /\ v.n <= v.d

\* what Rgba::correct is to make of channel v when alpha is not below 0
ChannelCorrected(v, w) ==
    /\ FGt(v, F(1)) => FEq(w, F(1))
    /\ FLt(v, F(0)) => FEq(w, F(0))
    /\ InUnit(v) => FEq(w, v)

SurfaceCreated == pc = "paint" /\ index = 0 /\ surfIn.kind = "create"

\* the surface holds exactly width * height pixels, all (0, 0, 0, 0)
HoldsWidthTimesHeight ==
    /\ ~UsizeMul(surfIn.width, surfIn.height).overflow
    /\ UsizeMul(surfIn.width, surfIn.height).value = Usize(0, Len(surface.base))
    /\ \A i \in 1..Len(surface.base) :
           /\ IsZero(surface.base[i].red) /\ IsZero(surface.base[i].green)
           /\ IsZero(surface.base[i].blue) /\ IsZero(surface.base[i].alpha)

StartIsNext == pc = "loop" /\ events # <<>> /\ Head(events).event_type = "Start"

\* the place, counted from the head, of the first record that find_line_place
\* does not report Greater for; one past the tail when it does for all
FirstNotGreater(list, ev) ==
    LET stops == {i \in 1..Len(list) :
                    find_line_place(ev.point, ev.edge_left.line, list[i]) # "Greater"}
    IN  IF stops = {} THEN Len(list) + 1
        ELSE CHOOSE i \in stops : \A j \in stops : i <= j

PlacedByX(point, line, rec, res) ==
    /\ res = "Equal" <=> LineEq(line, rec.line)
    /\ (~LineEq(line, rec.line) /\ ~FEq(F(point.x), current_x_for_y(rec, point.y))) =>
           /\ FGt(F(point.x), current_x_for_y(rec, point.y)) => res = "Greater"
           /\ FLt(F(point.x), current_x_for_y(rec, point.y)) => res = "Less"
    /\ res # "Empty"

\* C25: find_line_place(point, line, candidate) returns Equal exactly when
\* line equals the candidate's line; otherwise, when point.x differs from the
\* candidate's x at point.y, it returns Greater if point.x is larger and Less
\* if it is smaller; it never returns Empty.  Stated of every call scan
\* makes: those of the walk of a Start event and the one of each pass of
\* the search of an End event, whose answer scan keeps in result.
C25_FindLinePlaceByX ==
    [][/\ StartIsNext =>
            \A i \in 1..Len(sl_list) :
                i <= FirstNotGreater(sl_list, Head(events)) =>
                    PlacedByX(Head(events).point, Head(events).edge_left.line, sl_list[i],
                              find_line_place(Head(events).point,
                                              Head(events).edge_left.line, sl_list[i]))
       /\ (pc = "end_search" /\ pc' # "panic" /\ ~PeekNextIsNone(sl_list, SearchCursor)) =>
            PlacedByX(event.point, event.edge_left.line, sl_list[SearchCursor + 1], result')
      ]_vars

\* a pass of the search of an End event has answered Greater for a record
\* of another line that the event's point is to the right of
C25_Witness ==
    /\ pc = "end_search"
    /\ result = "Greater"
    /\ \E i \in 1..Len(sl_list) :
           /\ ~LineEq(event.edge_left.line, sl_list[i].line)
           /\ FGt(F(event.point.x), current_x_for_y(sl_list[i], event.point.y))

\* find_line_place is asked about a record whose x at point.y is NaN
C25_NaNCandidate ==
    /\ pc = "end_search"
    /\ ~PeekNextIsNone(sl_list, SearchCursor)
    /\ ~LineEq(event.edge_left.line, sl_list[SearchCursor + 1].line)
    /\ IsNaN(current_x_for_y(sl_list[SearchCursor + 1], event.point.y))

\* the endpoint of the line with the larger y
LowerEnd(line) ==
    IF line.point1.y < line.point2.y THEN line.point2 ELSE line.point1

\* neither line is horizontal and both go on below the point
BothGoBelow(a, b, point) ==
    /\ LowerEnd(a).y > point.y /\ min_y_point(a).y <= point.y
    /\ LowerEnd(b).y > point.y /\ min_y_point(b).y <= point.y

\* of two lines through one point, a is to the right of b immediately below
\* the point: a gains more x per unit of y
RightBelow(a, b) ==
    (LowerEnd(a).x - min_y_point(a).x) * (LowerEnd(b).y - min_y_point(b).y)
        > (LowerEnd(b).x - min_y_point(b).x) * (LowerEnd(a).y - min_y_point(a).y)

\* C26: when the query point lies exactly on the candidate edge and the two
\* lines differ, find_line_place reports Greater exactly when the new edge
\* lies to the right of the candidate immediately below the point, whatever
\* the signs of the slopes.  Stated of the calls of the walk of every Start
\* event.
C26_TieBreakGeometric ==
    [][StartIsNext =>
        \A i \in 1..Len(sl_list) :
            (/\ i <= FirstNotGreater(sl_list, Head(events))
             /\ ~LineEq(Head(events).edge_left.line, sl_list[i].line)
             /\ FEq(F(Head(events).point.x),
                    current_x_for_y(sl_list[i], Head(events).point.y))
             /\ BothGoBelow(Head(events).edge_left.line, sl_list[i].line,
                            Head(events).point)) =>
                (find_line_place(Head(events).point, Head(events).edge_left.line,
                                 sl_list[i]) = "Greater"
                    <=> RightBelow(Head(events).edge_left.line, sl_list[i].line))
      ]_vars

\* the sequence s from its last element to its first
Swapped(s) == [i \in 1..Len(s) |-> s[Len(s) + 1 - i]]

\* two distinct lines that leave one point with identical slopes
SameSlopeThrough(a, b) ==
    /\ ~LineEq(a, b)
    /\ min_y_point(a) = min_y_point(b)
    /\ FEq(slope(a), slope(b))

\* in every scan line list that scan goes through on the edge list es, a
\* record of line a comes before every record of line b
ComesBeforeIn(es, a, b) ==
    \A n \in 0..Len(event_list_from_edges(es)) :
        ListAfterEvents(event_list_from_edges(es), n).ok =>
            \A p, q \in 1..Len(ListAfterEvents(event_list_from_edges(es), n).list) :
                (/\ ListAfterEvents(event_list_from_edges(es), n).list[p].line = a
                 /\ ListAfterEvents(event_list_from_edges(es), n).list[q].line = b) =>
                    p < q

\* C27: for two distinct edges that pass through the same point with
\* identical slopes, the relative order scan gives them in the active list is
\* the same whichever of the two is inserted first: the order they have in
\* this scan is the order they have in the scan of the edge list given the
\* other way round, where the other one is inserted first.
C27_SameSlopeOrderFixed ==
    pc = "loop" =>
        \A i, j \in 1..Len(sl_list) :
            (i < j /\ SameSlopeThrough(sl_list[i].line, sl_list[j].line)) =>
                ComesBeforeIn(Swapped(edges), sl_list[i].line, sl_list[j].line)

\* the record of the End event's edge is in the scan line list
EndingRecordPresent ==
    \E i \in 1..Len(sl_list) : LineEq(sl_list[i].line, event.edge_left.line)

\* C28: in the End case, while the record under the cursor is not the ending
\* edge, the search moves the cursor right (next) when find_line_place
\* reports that the event's line is greater and left (prev) when it reports
\* less, and it stops with Equal on the ending edge's record whenever that
\* record is in the active list.
C28_EndSearchDirection ==
    [][(pc = "end_search" /\ ~PeekNextIsNone(sl_list, SearchCursor)) =>
        /\ SearchResult = "Greater" =>
               (pc' = "end_search" /\ cursor' = CursorNext(sl_list, SearchCursor))
        /\ SearchResult = "Less" =>
               (pc' = "end_search" /\ cursor' = CursorPrev(sl_list, SearchCursor))
        /\ (pc' = "loop" /\ EndingRecordPresent) =>
               (result' = "Equal" /\ SearchResult = "Equal")
      ]_vars

\* C29: for every input edge, horizontal and zero-length edges included,
\* scan processes a Start event of that edge before it processes any End
\* event of that edge.
C29_StartBeforeEnd ==
    \A k \in 1..Len(processed) :
        processed[k].event_type = "End" =>
            \E j \in 1..(k - 1) :
                /\ processed[j].event_type = "Start"
                /\ processed[j].edge_left = processed[k].edge_left

\* C30: Event equality agrees with Event ordering: for all events a and b,
\* a == b holds exactly when a.cmp(b) is Equal, and two events with different
\* points, edges or kinds are not equal.
C30_EqAgreesWithCmp ==
    cmpOut.computed =>
        /\ cmpOut.eq <=> cmpOut.ab = "Equal"
        /\ (\/ cmpIn[1].point # cmpIn[2].point
            \/ cmpIn[1].edge_left # cmpIn[2].edge_left
            \/ cmpIn[1].event_type # cmpIn[2].event_type) => ~cmpOut.eq

\* the pixels among what the calls of next have returned, in order
PixelsOf(calls) == SelectSeq(calls, LAMBDA c : c.some)

\* into_iter() has been run to its None
IntoIterExhausted == pc = "into_iter" /\ CountNone(ownCalls) > 0

\* C31: for every ImageSurface, one built by from_vec with a vector whose
\* length differs from width * height included, iter() and into_iter() yield
\* the same sequence of pixels and neither reads past the end of the pixel
\* vector (no read of iter() is stopped as out of bounds).
C31_IterMatchesIntoIter ==
    /\ pc # "iter_panic"
    /\ IntoIterExhausted => PixelsOf(refCalls) = PixelsOf(ownCalls)

\* what the k-th call of next returns on the pixels base
ExpectedCall(base, k) == IF k <= Len(base) THEN Some(base[k]) ELSE None

\* C32: ImageSurfaceIterator::next yields the surface's pixels in index
\* order, each exactly once; once it has returned None every later call
\* returns None, and index never exceeds the number of pixels.
C32_IntoIterInOrderThenNone ==
    pc = "into_iter" =>
        /\ \A k \in 1..Len(ownCalls) : ownCalls[k] = ExpectedCall(surface.base, k)
        /\ ownIter.index <= Len(surface.base)
        /\ ownIter.index = Len(PixelsOf(ownCalls))

\* next has yielded several pixels, not all alike, and has then returned
\* None more than once
C32_Witness ==
    /\ pc = "into_iter"
    /\ CountNone(ownCalls) >= 2
    /\ Len(PixelsOf(ownCalls)) >= 2
    /\ ownCalls[1] # ownCalls[2]

====
